---- MODULE Spec2Model ----
(***************************************************************************)
(* Product recognition engine: the SIFT catalog store (registration,       *)
(* persistence, snapshot restore), product identification by ratio-test    *)
(* matching, the contrast-threshold calibrator and the temporal aggregator *)
(* of video detections.                                                    *)
(*                                                                         *)
(* Conventions                                                             *)
(*   - a descriptor is a point on the integer line; the distance of two    *)
(*     descriptors is the absolute difference (the L2 norm BFMatcher uses, *)
(*     in one dimension);                                                  *)
(*   - a descriptor matrix is a sequence of descriptors, <<>> standing for *)
(*     the None that detectAndCompute returns when it finds no keypoint;   *)
(*   - a python dict is a sequence of entries in insertion order;          *)
(*   - thresholds are in units of 0.001/256, times and window sizes in     *)
(*     hundredths of a second.                                             *)
(***************************************************************************)
EXTENDS Integers, Sequences, FiniteSets, TLC

VARIABLES
    \* ---- the engine (SIFTEngine) and its files
    database,         \* self.database: seq of [id, name, descriptors]
    sift,             \* self.sift: the contrastThreshold of the extractor
    storage,          \* sift_data.pkl: [kind: "absent" | "partial" | "db", db]
    csv,              \* products.csv: seq of [id, name] rows
    runs,             \* MLflow runs: the set of logged store snapshots
    up,               \* the process is running
    pc,               \* position of the request in flight
    req,              \* its arguments
    resp,             \* what the last finished request answered
    \* ---- identify_product
    des_q,            \* descriptors of the query image
    min_match_count,
    ident,            \* outcome of the call
    again,            \* outcome of a second run on the same catalog and query
    \* ---- find_optimal_threshold
    cv_image,         \* the image: the contrasts of its candidate keypoints
    target_points, tolerance, low, high,
    best_vis, best_count, best_th,
    iteration,        \* number of loop iterations run
    evals,            \* the evaluated midpoints: seq of [mid, count]
    cpc,              \* "loop" | "done"
    \* ---- _aggregate_detections
    detections, window_size, min_frames,
    aggregated,       \* the returned windows
    apc,              \* "call" | "done"
    reaggregated,     \* outcome of a second call, on the returned windows
    \* ---- _annotate_text
    segments, min_words_text, min_presence_ratio,
    final_parts,      \* the parts joined into the returned script
    tpc,              \* "call" | "done"
    \* ---- process_video and its scan of the frames
    opened,           \* cap.isOpened()
    fps, frame_every_seconds, min_matches,
    frame_idx,
    frame,            \* the frame read last: [time, des_q, selected]
    vpc,              \* "idle" | "scan" | "transcribe" | "done" | "error"
    \* ---- annotate_text_with_csv
    csv_exists,       \* os.path.exists(csv_path), as the annotator sees it
    text, case_sensitive,
    annotated_text,
    npc,              \* "call" | "done"
    \* ---- restore_version on a worker thread
    tpos,             \* "idle" | "copy" | "load"
    tsnap             \* the snapshot it restores

engineVars == <<database, sift, storage, csv, runs, up, pc, req, resp>>
identVars  == <<des_q, min_match_count, ident, again>>
calibVars  == <<cv_image, target_points, tolerance, low, high, best_vis, best_count,
                best_th, iteration, evals, cpc>>
aggVars    == <<detections, window_size, min_frames, aggregated, apc, reaggregated>>
annVars    == <<segments, min_words_text, min_presence_ratio, final_parts, tpc>>
videoVars  == <<opened, fps, frame_every_seconds, min_matches, frame_idx, frame, vpc>>
nameVars   == <<csv_exists, text, case_sensitive, annotated_text, npc>>
textVars   == <<annVars, videoVars, nameVars>>
threadVars == <<tpos, tsnap>>
vars       == <<engineVars, identVars, calibVars, aggVars, textVars, threadVars>>

(***************************************************************************)
(* Bounds                                                                  *)
(***************************************************************************)
MaxProducts    == 2     \* catalog entries
MaxDescriptors == 2     \* rows of a descriptor matrix
MaxMinMatch    == 2     \* largest min_match_count tried

Coords == {0, 1, 4}
Names  == {"Cola", "Fanta"}
ProductIds == 1 .. MaxProducts

RECURSIVE SeqsUpTo(_, _)
SeqsUpTo(S, n) ==
    IF n = 0 THEN {<<>>}
    ELSE LET shorter == SeqsUpTo(S, n - 1)
         IN  shorter \cup {Append(s, x) : s \in {t \in shorter : Len(t) = n - 1}, x \in S}

\* descriptor matrices, rows listed in nondecreasing order
DescriptorSets ==
    {s \in SeqsUpTo(Coords, MaxDescriptors) :
        \A i \in 1 .. Len(s) - 1 : s[i] <= s[i + 1]}

(***************************************************************************)
(* identify_product                                                        *)
(***************************************************************************)
NoMatch == [name |-> "None", id |-> 0]      \* best_match = None

Dist(a, b) == IF a >= b THEN a - b ELSE b - a

RemoveAt(s, i) == SubSeq(s, 1, i - 1) \o SubSeq(s, i + 1, Len(s))

\* the k smallest entries of ds, nearest first
RECURSIVE NearestFirst(_, _)
NearestFirst(ds, k) ==
    IF k = 0 \/ ds = <<>> THEN <<>>
    ELSE LET i == CHOOSE i \in 1 .. Len(ds) : \A j \in 1 .. Len(ds) : ds[i] <= ds[j]
         IN  <<ds[i]>> \o NearestFirst(RemoveAt(ds, i), k - 1)

\* cv2.BFMatcher().knnMatch(queryDescriptors, trainDescriptors, k): for each
\* row of queryDescriptors the distances of its k nearest rows of
\* trainDescriptors (fewer when trainDescriptors has fewer than k rows)
knnMatch(queryDescriptors, trainDescriptors, k) ==
    [i \in 1 .. Len(queryDescriptors) |->
        NearestFirst([j \in 1 .. Len(trainDescriptors) |->
                         Dist(queryDescriptors[i], trainDescriptors[j])], k)]

\* the ratio test with <= in place of <
RatioTestNotStrict(m, n) == 4 * m <= 3 * n

\* m.distance < 0.75 * n.distance
RatioTest(m, n) == 4 * m < 3 * n

\* "for m, n in matches": unpacking a row that is not a pair raises ValueError
Unpackable(matches) == \A i \in 1 .. Len(matches) : Len(matches[i]) = 2

\* len(good) after the ratio-test loop
GoodCount(matches) ==
    Cardinality({i \in 1 .. Len(matches) : RatioTest(matches[i][1], matches[i][2])})

\* the scan of identify_product from entry i on, with the running best_match,
\* max_matches and the len(good) of the products scanned so far
RECURSIVE IdentifyScan(_, _, _, _, _, _)
IdentifyScan(db, q, mmc, i, best, maxm) ==
    IF i > Len(db)
    THEN [status  |-> "returned",
          match   |-> IF maxm >= mmc THEN best ELSE NoMatch,
          matches |-> maxm,
          good    |-> <<>>]
    ELSE IF db[i].descriptors = <<>>
    THEN IdentifyScan(db, q, mmc, i + 1, best, maxm)
    ELSE LET matches == knnMatch(db[i].descriptors, q, 2)
         IN  IF ~Unpackable(matches)
             THEN [status |-> "raised", match |-> NoMatch, matches |-> 0, good |-> <<>>]
             ELSE LET n    == GoodCount(matches)
                      rest == IF n > maxm
                              THEN IdentifyScan(db, q, mmc, i + 1,
                                                [name |-> db[i].name, id |-> db[i].id], n)
                              ELSE IdentifyScan(db, q, mmc, i + 1, best, maxm)
                  IN  [rest EXCEPT !.good = <<[id |-> db[i].id, n |-> n]>> \o @]

\* identify_product with max_matches kept from the call before
IdentifyKeepsMax(db, q, mmc) ==
    IF q = <<>>
    THEN [status |-> "returned", match |-> NoMatch, matches |-> 0, good |-> <<>>]
    ELSE IdentifyScan(db, q, mmc, 1, NoMatch, ident.matches)

identify_product(db, q, mmc) ==
    IF q = <<>>
    THEN [status |-> "returned", match |-> NoMatch, matches |-> 0, good |-> <<>>]
    ELSE IdentifyScan(db, q, mmc, 1, NoMatch, 0)

IdentIdle == [status |-> "idle", match |-> NoMatch, matches |-> 0, good |-> <<>>]

NotRun == [status |-> "none", match |-> NoMatch, matches |-> 0, good |-> <<>>]

\* identify_product putting the default extractor back before it runs
IdentifyReconfigures(q, mmc) ==
    /\ up /\ pc = "idle"
    /\ ident.status = "idle"
    /\ des_q' = q
    /\ min_match_count' = mmc
    /\ ident' = identify_product(database, q, mmc)
    /\ again' = NotRun
    /\ sift' = 10240
    /\ UNCHANGED <<database, storage, csv, runs, up, pc, req, resp,
                   calibVars, aggVars, textVars, threadVars>>

\* one call of identify_product on the current catalog
Identify(q, mmc) ==
    /\ up /\ pc = "idle"
    /\ ident.status = "idle"
    /\ des_q' = q
    /\ min_match_count' = mmc
    /\ ident' = identify_product(database, q, mmc)
    /\ again' = NotRun
    /\ UNCHANGED <<engineVars, calibVars, aggVars, textVars, threadVars>>

\* a second call of identify_product, on the same catalog with the same
\* query descriptors and min_match_count
Reidentify ==
    /\ up /\ pc = "idle"
    /\ ident.status \notin {"idle"}
    /\ again = NotRun
    /\ again' = identify_product(database, des_q, min_match_count)
    /\ UNCHANGED <<des_q, min_match_count, ident,
                   engineVars, calibVars, aggVars, textVars, threadVars>>

\* the caller takes the answer; the engine is ready for the next call
IdentifyDone ==
    /\ ident.status # "idle"
    /\ ident' = IdentIdle
    /\ again' = NotRun
    /\ des_q' = <<>>
    /\ min_match_count' = 1
    /\ UNCHANGED <<engineVars, calibVars, aggVars, textVars, threadVars>>

(***************************************************************************)
(* find_optimal_threshold                                                  *)
(***************************************************************************)
MaxCount == 2       \* largest keypoint count the extractor reports
MaxTol   == 1       \* largest tolerance tried

ThetaMin  == 256    \* low = 0.001
ThetaMax  == 51200  \* high = 0.2
DefaultTh == 10240  \* best_th = 0.04
Budget    == 8      \* range(8)
NoVis     == 0      \* best_vis = None; a visualization is named by the
                    \* number of the evaluation that drew it

Abs(x) == IF x >= 0 THEN x ELSE -x

\* the comparison without the "best_vis is None" case
BetterNoneUnchecked(vis, count, bcount, target) ==
    Abs(count - target) < Abs(bcount - target)

\* "best_vis is None or abs(count - target_points) < abs(best_count - target_points)"
Better(vis, count, bcount, target) ==
    vis = NoVis \/ Abs(count - target) < Abs(bcount - target)

\* the break test without abs
WithinToleranceOneSided(count, target, tol) == count - target <= tol

\* "if abs(count - target_points) <= tolerance: break"
WithinTolerance(count, target, tol) == Abs(count - target) <= tol

\* the count detect_keypoints_vis reports for an image at contrast_threshold
\* th: the candidate keypoints whose contrast reaches th
detect_keypoints_vis(image, th) ==
    Cardinality({k \in 1 .. Len(image) : image[k] >= th})

\* the bisection with its directions exchanged
NextBoundsSwapped(lo, hi, mid, count, target) ==
    IF count < target THEN [low |-> mid, high |-> hi]
                      ELSE [low |-> lo, high |-> mid]

\* "if count < target_points: high = mid / else: low = mid"
NextBounds(lo, hi, mid, count, target) ==
    IF count < target THEN [low |-> lo, high |-> mid]
                      ELSE [low |-> mid, high |-> hi]

\* entry of find_optimal_threshold (lines 38-42)
CalibCall(target, tol) ==
    /\ cpc = "idle"
    /\ target_points' = target
    /\ tolerance' = tol
    /\ low' = ThetaMin
    /\ high' = ThetaMax
    /\ best_vis' = NoVis
    /\ best_count' = -1
    /\ best_th' = DefaultTh
    /\ iteration' = 0
    /\ evals' = <<>>
    /\ cpc' = "loop"
    /\ UNCHANGED <<cv_image, engineVars, identVars, aggVars, textVars, threadVars>>

\* one iteration of the loop; count is what detect_keypoints_vis reports at
\* the midpoint. The function returns (best_th, best_vis, best_count) when
\* the loop breaks or range(8) is exhausted.
CalibStep(count) ==
    /\ cpc = "loop"
    /\ iteration < Budget
    /\ LET mid == (low + high) \div 2
           nb  == NextBounds(low, high, mid, count, target_points)
       IN  /\ evals' = Append(evals, [mid |-> mid, count |-> count])
           /\ iteration' = iteration + 1
           /\ IF Better(best_vis, count, best_count, target_points)
              THEN /\ best_vis' = iteration + 1
                   /\ best_count' = count
                   /\ best_th' = mid
              ELSE UNCHANGED <<best_vis, best_count, best_th>>
           /\ IF WithinTolerance(count, target_points, tolerance)
              THEN /\ cpc' = "done"
                   /\ UNCHANGED <<low, high>>
              ELSE /\ low' = nb.low
                   /\ high' = nb.high
                   /\ cpc' = IF iteration + 1 = Budget THEN "done" ELSE "loop"
    /\ UNCHANGED <<cv_image, target_points, tolerance,
                   engineVars, identVars, aggVars, textVars, threadVars>>

\* find_optimal_threshold not yet called
CalibIdle ==
    /\ target_points = 0 /\ tolerance = 0
    /\ low = ThetaMin /\ high = ThetaMax
    /\ best_vis = NoVis /\ best_count = -1 /\ best_th = DefaultTh
    /\ iteration = 0 /\ evals = <<>> /\ cpc = "idle"

CalibInit ==
    /\ cv_image = <<>>
    /\ target_points = 0 /\ tolerance = 0
    /\ low = ThetaMin /\ high = ThetaMax
    /\ best_vis = NoVis /\ best_count = -1 /\ best_th = DefaultTh
    /\ iteration = 0 /\ evals = <<>> /\ cpc = "idle"

(***************************************************************************)
(* _aggregate_detections                                                   *)
(***************************************************************************)
MaxDetections == 2  \* detections handed to one call
MaxMinFrames  == 2  \* largest min_frames tried

DetTimes    == {0, 60, 130}     \* round(time_sec, 2), in hundredths
WindowSizes == {50, 100}
\* what one frame can report: the names of the products that cleared
\* min_matches, one entry per catalog record (two records may share a name)
SkuLists    == {<<"Cola">>, <<"Fanta">>, <<"Cola", "Cola">>, <<"Cola", "Fanta">>}
Detections  == [time : DetTimes, skus : SkuLists]

\* int(det["time"] // window_size)
WindowId(time, wsize) == time \div wsize

\* position of key k in an insertion-ordered dict, 0 when absent
KeyIndex(d, k) ==
    IF \E i \in 1 .. Len(d) : d[i].key = k
    THEN CHOOSE i \in 1 .. Len(d) : d[i].key = k
    ELSE 0

\* the bucketing loop with a new window put in front of the dict
RECURSIVE GroupByWindowNewestFirst(_, _, _)
GroupByWindowNewestFirst(dets, wsize, windows) ==
    IF dets = <<>> THEN windows
    ELSE LET wid == WindowId(Head(dets).time, wsize)
             i   == KeyIndex(windows, wid)
         IN  GroupByWindowNewestFirst(Tail(dets), wsize,
                IF i = 0
                THEN <<[key |-> wid, val |-> <<Head(dets).skus>>]>> \o windows
                ELSE [windows EXCEPT ![i].val = Append(@, Head(dets).skus)])

\* windows[window_id].append(det["skus"]) for every detection, in order
RECURSIVE GroupByWindow(_, _, _)
GroupByWindow(dets, wsize, windows) ==
    IF dets = <<>> THEN windows
    ELSE LET wid == WindowId(Head(dets).time, wsize)
             i   == KeyIndex(windows, wid)
         IN  GroupByWindow(Tail(dets), wsize,
                IF i = 0
                THEN Append(windows, [key |-> wid, val |-> <<Head(dets).skus>>])
                ELSE [windows EXCEPT ![i].val = Append(@, Head(dets).skus)])

\* counter[sku] += 1 for every sku of one detection's list
RECURSIVE CountSkus(_, _)
CountSkus(skus, counter) ==
    IF skus = <<>> THEN counter
    ELSE LET i == KeyIndex(counter, Head(skus))
         IN  CountSkus(Tail(skus),
                IF i = 0
                THEN Append(counter, [key |-> Head(skus), val |-> 1])
                ELSE [counter EXCEPT ![i].val = @ + 1])

\* the counter of one window
RECURSIVE CountVotes(_, _)
CountVotes(sku_lists, counter) ==
    IF sku_lists = <<>> THEN counter
    ELSE CountVotes(Tail(sku_lists), CountSkus(Head(sku_lists), counter))

\* [sku for sku, count in counter.items() if count >= min_frames]
RECURSIVE FinalSkus(_, _)
FinalSkus(counter, mframes) ==
    IF counter = <<>> THEN <<>>
    ELSE (IF Head(counter).val >= mframes THEN <<Head(counter).key>> ELSE <<>>)
         \o FinalSkus(Tail(counter), mframes)

\* the loop over windows.items()
RECURSIVE EmitWindows(_, _, _)
EmitWindows(windows, wsize, mframes) ==
    IF windows = <<>> THEN <<>>
    ELSE LET final_skus == FinalSkus(CountVotes(Head(windows).val, <<>>), mframes)
         IN  (IF final_skus # <<>>
              THEN <<[start |-> Head(windows).key * wsize,
                      end   |-> (Head(windows).key + 1) * wsize,
                      skus  |-> final_skus]>>
              ELSE <<>>)
             \o EmitWindows(Tail(windows), wsize, mframes)

aggregate_detections(dets, wsize, mframes) ==
    EmitWindows(GroupByWindow(dets, wsize, <<>>), wsize, mframes)

NotCalled == [status |-> "none", windows |-> <<>>]

\* one call of _aggregate_detections
Aggregate(dets, wsize, mframes) ==
    /\ apc = "call"
    /\ detections' = dets
    /\ window_size' = wsize
    /\ min_frames' = mframes
    /\ aggregated' = aggregate_detections(dets, wsize, mframes)
    /\ apc' = "done"
    /\ reaggregated' = NotCalled
    /\ UNCHANGED <<engineVars, identVars, calibVars, textVars, threadVars>>

\* det["time"] on an entry that has no "time" key raises KeyError
HasTime(det) == "time" \in DOMAIN det

\* _aggregate_detections called on a list whose entries may be windows
\* ({start, end, skus}) instead of detections ({time, skus}): the first
\* entry without "time" raises KeyError in the bucketing loop
aggregate_entries(entries, wsize, mframes) ==
    IF \A i \in 1 .. Len(entries) : HasTime(entries[i])
    THEN [status |-> "returned", windows |-> aggregate_detections(entries, wsize, mframes)]
    ELSE [status |-> "raised", windows |-> <<>>]

\* the returned windows are handed to _aggregate_detections again, with the
\* same window_size and min_frames
Reaggregate ==
    /\ apc = "done"
    /\ reaggregated = NotCalled
    /\ reaggregated' = aggregate_entries(aggregated, window_size, min_frames)
    /\ UNCHANGED <<detections, window_size, min_frames, aggregated, apc,
                   engineVars, identVars, calibVars, textVars, threadVars>>

\* the caller takes the windows
AggregateDone ==
    /\ apc = "done"
    /\ apc' = "call"
    /\ detections' = <<>>
    /\ window_size' = 100
    /\ min_frames' = 1
    /\ aggregated' = <<>>
    /\ reaggregated' = NotCalled
    /\ UNCHANGED <<engineVars, identVars, calibVars, textVars, threadVars>>

AggInit ==
    /\ detections = <<>> /\ window_size = 100 /\ min_frames = 1
    /\ aggregated = <<>> /\ apc = "call" /\ reaggregated = NotCalled

(***************************************************************************)
(* _annotate_text                                                          *)
(***************************************************************************)
MaxSegments == 2    \* transcript segments handed to one call
MaxWindows  == 2    \* windows handed to one call

\* text.split() from the characters s on, word being the run of
\* non-whitespace characters read so far
RECURSIVE SplitFrom(_, _)
SplitFrom(s, word) ==
    IF s = <<>> THEN (IF word = <<>> THEN <<>> ELSE <<word>>)
    ELSE IF Head(s) = " "
         THEN (IF word = <<>> THEN <<>> ELSE <<word>>) \o SplitFrom(Tail(s), <<>>)
         ELSE SplitFrom(Tail(s), Append(word, Head(s)))

\* text.split(): the whitespace-delimited tokens of a string
Split(s) == SplitFrom(s, <<>>)

\* the word-count test on the characters instead of the tokens
TooShortInChars(s, mwords) == Len(s) < mwords

\* the word-count test taken one token too low
TooShortOffByOne(s, mwords) == Len(Split(s)) < mwords - 1

\* "if len(text.split()) < min_words_text"
TooShort(s, mwords) == Len(Split(s)) < mwords

\* "overlap = not (seg['end'] < det['start'] or seg['start'] > det['end'])"
Overlap(seg, det) == ~(seg.end < det.start \/ seg.start > det.end)

\* the loop over detections: total_windows and sku_counter of one segment
RECURSIVE CountOverlapping(_, _, _)
CountOverlapping(seg, dets, acc) ==
    IF dets = <<>> THEN acc
    ELSE CountOverlapping(seg, Tail(dets),
            IF Overlap(seg, Head(dets))
            THEN [total_windows |-> acc.total_windows + 1,
                  sku_counter   |-> CountSkus(Head(dets).skus, acc.sku_counter)]
            ELSE acc)

\* the presence test with > in place of >=
PresentStrictly(count, total_windows, ratio) ==
    count * ratio.den > ratio.num * (IF total_windows > 1 THEN total_windows ELSE 1)

\* "count / max(total_windows, 1) >= min_presence_ratio", the ratio being
\* num / den
Present(count, total_windows, ratio) ==
    count * ratio.den >= ratio.num * (IF total_windows > 1 THEN total_windows ELSE 1)

\* final_skus: the keys of sku_counter that pass the presence test
RECURSIVE PresentSkus(_, _, _)
PresentSkus(sku_counter, total_windows, ratio) ==
    IF sku_counter = <<>> THEN <<>>
    ELSE (IF Present(Head(sku_counter).val, total_windows, ratio)
          THEN <<Head(sku_counter).key>> ELSE <<>>)
         \o PresentSkus(Tail(sku_counter), total_windows, ratio)

\* the order of str: position of a name among the sorted names
StrRank(sku) == IF sku = "Cola" THEN 1 ELSE 2

\* sorted(final_skus)
RECURSIVE sorted(_)
sorted(skus) ==
    IF skus = <<>> THEN <<>>
    ELSE LET i == CHOOSE i \in 1 .. Len(skus) :
                      \A j \in 1 .. Len(skus) : StrRank(skus[i]) <= StrRank(skus[j])
         IN  <<skus[i]>> \o sorted(RemoveAt(skus, i))

\* one element of final_parts: the string text when skus is empty, and
\* "text (SKU:a, SKU:b)" for skus <<a, b>> otherwise
AnnotatePart(seg, dets, mwords, ratio) ==
    IF TooShort(seg.text, mwords)
    THEN [text |-> seg.text, skus |-> <<>>]
    ELSE LET c == CountOverlapping(seg, dets, [total_windows |-> 0, sku_counter |-> <<>>])
         IN  [text |-> seg.text,
              skus |-> sorted(PresentSkus(c.sku_counter, c.total_windows, ratio))]

\* _annotate_text: the parts that " ".join() puts in the returned script,
\* one per segment, in the order of the segments
annotate_text(segs, dets, mwords, ratio) ==
    [i \in 1 .. Len(segs) |-> AnnotatePart(segs[i], dets, mwords, ratio)]

DefaultMinWords == 4                        \* min_words_text=4
DefaultRatio    == [num |-> 3, den |-> 5]   \* min_presence_ratio=0.6

\* one call of _annotate_text on the windows of the aggregator
AnnotateText(segs, mwords, ratio) ==
    /\ tpc = "call"
    /\ vpc = "idle"
    /\ segments' = segs
    /\ min_words_text' = mwords
    /\ min_presence_ratio' = ratio
    /\ final_parts' = annotate_text(segs, aggregated, mwords, ratio)
    /\ tpc' = "done"
    /\ UNCHANGED <<videoVars, nameVars, engineVars, identVars, calibVars, aggVars, threadVars>>

\* the caller takes the script
AnnotateTextDone ==
    /\ tpc = "done"
    /\ vpc = "idle"
    /\ tpc' = "call"
    /\ segments' = <<>>
    /\ min_words_text' = DefaultMinWords
    /\ min_presence_ratio' = DefaultRatio
    /\ final_parts' = <<>>
    /\ UNCHANGED <<videoVars, nameVars, engineVars, identVars, calibVars, aggVars, threadVars>>

AnnInit ==
    /\ segments = <<>> /\ min_words_text = DefaultMinWords
    /\ min_presence_ratio = DefaultRatio
    /\ final_parts = <<>> /\ tpc = "call"

(***************************************************************************)
(* process_video: the scan of the frames, aggregation, annotation          *)
(***************************************************************************)
MaxFrames == 5      \* frames of one video

DefaultWindowSize == 100    \* window_size=1.0
DefaultMinFrames  == 5      \* min_frames=5

FrameRates       == {1, 5}          \* cap.get(cv2.CAP_PROP_FPS)
FrameEvery       == {1, 2}          \* frame_every_seconds
FrameDescriptors == {<<>>, <<0>>, <<0, 1>>, <<1, 4>>}    \* des_q of a frame, None included

NoFrame == [time |-> 0, des_q |-> <<>>, selected |-> FALSE]

\* int(time_sec), time_sec = frame_idx / fps
IntSecond(idx, rate) == idx \div rate

\* round(time_sec, 2) in hundredths of a second (no frame rate of FrameRates
\* gives a tie)
RoundedTime(idx, rate) == (idx * 200 + rate) \div (2 * rate)

\* "if int(time_sec) % frame_every_seconds == 0"
Selected(idx, rate, every) == IntSecond(idx, rate) % every = 0

\* len(good) of the scan: a row of knnMatch with fewer than two entries is
\* skipped
GoodCountGuarded(matches) ==
    Cardinality({i \in 1 .. Len(matches) :
                    /\ Len(matches[i]) >= 2
                    /\ RatioTest(matches[i][1], matches[i][2])})

\* what the scan appends to visible for one catalog record
VisibleEntry(product_data) == product_data.name

\* visible: the loop over sift_engine.database.items() for one frame
RECURSIVE Visible(_, _, _)
Visible(db, q, mmatches) ==
    IF db = <<>> THEN <<>>
    ELSE (IF /\ Head(db).descriptors # <<>>
             /\ GoodCountGuarded(knnMatch(Head(db).descriptors, q, 2)) >= mmatches
          THEN <<VisibleEntry(Head(db))>> ELSE <<>>)
         \o Visible(Tail(db), q, mmatches)

\* process_video is called: the scan opens the video
ProcessVideo(rate, every, mmatches) ==
    /\ up /\ pc = "idle" /\ ident.status = "idle"
    /\ vpc = "idle" /\ apc = "call" /\ tpc = "call"
    /\ opened' = TRUE
    /\ fps' = rate
    /\ frame_every_seconds' = every
    /\ min_matches' = mmatches
    /\ frame_idx' = 0
    /\ frame' = NoFrame
    /\ detections' = <<>>
    /\ vpc' = "scan"
    /\ UNCHANGED <<window_size, min_frames, aggregated, apc, reaggregated,
                   annVars, nameVars, engineVars, identVars, calibVars, threadVars>>

\* process_video is called on a file that cv2.VideoCapture cannot open:
\* cap.get(cv2.CAP_PROP_FPS) is 0 and the scan goes on to its loop
ProcessVideoUnopened(every, mmatches) ==
    /\ up /\ pc = "idle" /\ ident.status = "idle"
    /\ vpc = "idle" /\ apc = "call" /\ tpc = "call"
    /\ opened' = FALSE
    /\ fps' = 0
    /\ frame_every_seconds' = every
    /\ min_matches' = mmatches
    /\ frame_idx' = 0
    /\ frame' = NoFrame
    /\ detections' = <<>>
    /\ vpc' = "scan"
    /\ UNCHANGED <<window_size, min_frames, aggregated, apc, reaggregated,
                   annVars, nameVars, engineVars, identVars, calibVars, threadVars>>

\* one iteration of the scan: cap.read() gives a frame, whose descriptors
\* are q when it is run through the extractor
ReadFrame(q) ==
    /\ vpc = "scan"
    /\ opened
    /\ frame_idx < MaxFrames
    /\ LET selected == Selected(frame_idx, fps, frame_every_seconds)
           visible  == IF selected /\ q # <<>>
                       THEN Visible(database, q, min_matches)
                       ELSE <<>>
       IN  /\ frame' = [time |-> RoundedTime(frame_idx, fps), des_q |-> q,
                        selected |-> selected]
           /\ detections' = IF visible # <<>>
                            THEN Append(detections, [time |-> RoundedTime(frame_idx, fps),
                                                     skus |-> visible])
                            ELSE detections
    /\ frame_idx' = frame_idx + 1
    /\ UNCHANGED <<opened, fps, frame_every_seconds, min_matches, vpc,
                   window_size, min_frames, aggregated, apc, reaggregated,
                   annVars, nameVars, engineVars, identVars, calibVars, threadVars>>

\* cap.isOpened() is false or cap.read() gives no frame: the scan returns its
\* detections and process_video aggregates them with the default window_size and min_frames
EndOfStream ==
    /\ vpc = "scan"
    /\ frame' = NoFrame
    /\ window_size' = DefaultWindowSize
    /\ min_frames' = DefaultMinFrames
    /\ aggregated' = aggregate_detections(detections, DefaultWindowSize, DefaultMinFrames)
    /\ vpc' = "transcribe"
    /\ UNCHANGED <<opened, fps, frame_every_seconds, min_matches, frame_idx,
                   detections, apc, reaggregated,
                   annVars, nameVars, engineVars, identVars, calibVars, threadVars>>

\* the transcriber returns its segments, and _annotate_text, with its
\* default parameters, makes the script process_video returns
Transcribe(segs) ==
    /\ vpc = "transcribe"
    /\ segments' = segs
    /\ final_parts' = annotate_text(segs, aggregated, DefaultMinWords, DefaultRatio)
    /\ vpc' = "done"
    /\ UNCHANGED <<opened, fps, frame_every_seconds, min_matches, frame_idx, frame,
                   min_words_text, min_presence_ratio, tpc,
                   nameVars, engineVars, identVars, calibVars, aggVars, threadVars>>

\* model.transcribe raises on the file (its audio cannot be decoded): the
\* exception leaves process_video, no script is returned
TranscribeFails ==
    /\ vpc = "transcribe"
    /\ vpc' = "error"
    /\ UNCHANGED <<opened, fps, frame_every_seconds, min_matches, frame_idx, frame,
                   annVars, nameVars, engineVars, identVars, calibVars, aggVars, threadVars>>

VideoInit ==
    /\ opened = FALSE
    /\ fps = 1 /\ frame_every_seconds = 1 /\ min_matches = 1
    /\ frame_idx = 0 /\ frame = NoFrame /\ vpc = "idle"

\* the caller takes the script
ProcessVideoDone ==
    /\ vpc = "done"
    /\ opened' = FALSE
    /\ fps' = 1 /\ frame_every_seconds' = 1 /\ min_matches' = 1
    /\ frame_idx' = 0 /\ frame' = NoFrame /\ vpc' = "idle"
    /\ detections' = <<>>
    /\ window_size' = 100
    /\ min_frames' = 1
    /\ aggregated' = <<>>
    /\ segments' = <<>>
    /\ final_parts' = <<>>
    /\ UNCHANGED <<apc, reaggregated, min_words_text, min_presence_ratio, tpc,
                   nameVars, engineVars, identVars, calibVars, threadVars>>

\* the route catches the exception and answers 500
AnalyzeVideoError ==
    /\ vpc = "error"
    /\ opened' = FALSE
    /\ fps' = 1 /\ frame_every_seconds' = 1 /\ min_matches' = 1
    /\ frame_idx' = 0 /\ frame' = NoFrame /\ vpc' = "idle"
    /\ detections' = <<>>
    /\ window_size' = 100
    /\ min_frames' = 1
    /\ aggregated' = <<>>
    /\ UNCHANGED <<apc, reaggregated, annVars,
                   nameVars, engineVars, identVars, calibVars, threadVars>>

(***************************************************************************)
(* annotate_text_with_csv                                                  *)
(***************************************************************************)
MaxPieces == 3      \* pieces a text is made of

Lookahead == 50     \* annotated_text[end:end+50]

\* a string is the sequence of its characters
NonWordChars == {" ", "-", "(", ")", ":", ","}
UpperChars   == <<"C", "S", "K", "U">>
LowerChars   == <<"c", "s", "k", "u">>

\* \w
IsWordChar(c) == c \notin NonWordChars

\* the lower-case form of a character (re.IGNORECASE compares these)
Lower(c) ==
    IF \E i \in 1 .. Len(UpperChars) : UpperChars[i] = c
    THEN LowerChars[CHOOSE i \in 1 .. Len(UpperChars) : UpperChars[i] = c]
    ELSE c

CharMatches(a, b, csensitive) == IF csensitive THEN a = b ELSE Lower(a) = Lower(b)

\* s[a:b]
Slice(s, a, b) == SubSeq(s, a + 1, IF b < Len(s) THEN b ELSE Len(s))

\* "sub in s"
Contains(s, sub) ==
    \E p \in 0 .. Len(s) - Len(sub) : SubSeq(s, p + 1, p + Len(sub)) = sub

\* \b at offset p: exactly one of the characters before and after p is a
\* word character
WordBoundary(s, p) ==
    (p >= 1 /\ IsWordChar(s[p])) # (p < Len(s) /\ IsWordChar(s[p + 1]))

\* the pattern \b name \b matches at offset p
MatchesAt(s, name, p, csensitive) ==
    /\ p + Len(name) <= Len(s)
    /\ \A k \in 1 .. Len(name) : CharMatches(s[p + k], name[k], csensitive)
    /\ WordBoundary(s, p)
    /\ WordBoundary(s, p + Len(name))

\* list(re.finditer(pattern, s)) from offset p on: the spans of the leftmost
\* non-overlapping matches
RECURSIVE finditer(_, _, _, _)
finditer(s, name, p, csensitive) ==
    IF p + Len(name) > Len(s) THEN <<>>
    ELSE IF MatchesAt(s, name, p, csensitive)
         THEN <<[start |-> p, end |-> p + Len(name)]>>
              \o finditer(s, name, p + Len(name), csensitive)
         ELSE finditer(s, name, p + 1, csensitive)

MarkerOpen == <<"(", "S", "K", "U", ":">>

\* " (SKU:{product_id})"
Marker(product_id) == <<" ">> \o MarkerOpen \o product_id \o <<")">>

\* the loop over reversed(matches) for one product
RECURSIVE ReplaceReversed(_, _, _)
ReplaceReversed(s, matches, product_id) ==
    IF matches = <<>> THEN s
    ELSE LET end == matches[Len(matches)].end
             s2  == IF ~Contains(Slice(s, end, end + Lookahead), MarkerOpen)
                    THEN Slice(s, 0, end) \o Marker(product_id) \o Slice(s, end, Len(s))
                    ELSE s
         IN  ReplaceReversed(s2, SubSeq(matches, 1, Len(matches) - 1), product_id)

\* products.sort(key=lambda p: len(p['name']), reverse=True): the longest
\* name first, names of one length in the order of the listing
RECURSIVE SortByNameLength(_)
SortByNameLength(products) ==
    IF products = <<>> THEN <<>>
    ELSE LET i == CHOOSE i \in 1 .. Len(products) :
                      /\ \A j \in 1 .. Len(products) :
                            Len(products[j].name) <= Len(products[i].name)
                      /\ \A j \in 1 .. i - 1 :
                            Len(products[j].name) < Len(products[i].name)
         IN  <<products[i]>> \o SortByNameLength(RemoveAt(products, i))

\* the loop over the sorted products
RECURSIVE AnnotateProducts(_, _, _)
AnnotateProducts(s, products, csensitive) ==
    IF products = <<>> THEN s
    ELSE AnnotateProducts(
            ReplaceReversed(s, finditer(s, Head(products).name, 0, csensitive),
                            Head(products).id),
            Tail(products), csensitive)

\* annotate_text_with_csv on the rows of products.csv
annotate_text_with_csv(s, rows, csensitive) ==
    IF rows = <<>> THEN s
    ELSE AnnotateProducts(s, SortByNameLength(rows), csensitive)

\* annotate_text_with_csv opening the file without the tests of lines 306
\* and 318: a missing file raises
AnnotateByNameUnchecked(s, csensitive) ==
    /\ npc = "call"
    /\ text' = s
    /\ case_sensitive' = csensitive
    /\ annotated_text' = IF csv_exists THEN annotate_text_with_csv(s, csv, csensitive)
                                      ELSE <<>>
    /\ npc' = IF csv_exists THEN "done" ELSE "error"
    /\ UNCHANGED <<csv_exists, annVars, videoVars, engineVars, identVars, calibVars, aggVars, threadVars>>

\* one call of annotate_text_with_csv on the current products.csv; a missing
\* file returns the text (lines 306-308)
AnnotateByName(s, csensitive) ==
    /\ npc = "call"
    /\ text' = s
    /\ case_sensitive' = csensitive
    /\ annotated_text' = IF csv_exists THEN annotate_text_with_csv(s, csv, csensitive)
                                      ELSE s
    /\ npc' = "done"
    /\ UNCHANGED <<csv_exists, annVars, videoVars, engineVars, identVars, calibVars, aggVars, threadVars>>

\* the caller takes the annotated text
AnnotateByNameDone ==
    /\ npc = "done"
    /\ npc' = "call"
    /\ text' = <<>>
    /\ case_sensitive' = FALSE
    /\ annotated_text' = <<>>
    /\ UNCHANGED <<csv_exists, annVars, videoVars, engineVars, identVars, calibVars, aggVars, threadVars>>

\* annotate_text_with_csv not yet called
NameIdle ==
    /\ text = <<>> /\ case_sensitive = FALSE
    /\ annotated_text = <<>> /\ npc = "call"

\* products.csv exists since the engine was constructed
NameInit == NameIdle /\ csv_exists = TRUE

TextInit == AnnInit /\ VideoInit /\ NameInit

(***************************************************************************)
(* SIFTEngine: registration, persistence, snapshot restore                 *)
(***************************************************************************)
MaxRuns == 1        \* MLflow runs kept (logging fails beyond)

AbsentFile  == [kind |-> "absent",  db |-> <<>>]
PartialFile == [kind |-> "partial", db |-> <<>>]    \* opened for writing, not yet complete
DbFile(db)  == [kind |-> "db", db |-> db]

NoRequest == [name |-> "None", id |-> 0, descriptors |-> <<>>, rows |-> <<>>, snap |-> <<>>]

\* position of product_id among the keys of a dict, 0 when absent
IdIndex(d, product_id) ==
    IF \E i \in 1 .. Len(d) : d[i].id = product_id
    THEN CHOOSE i \in 1 .. Len(d) : d[i].id = product_id
    ELSE 0

\* the entry appended, whether or not its key is present
DictAppend(d, entry) == Append(d, entry)

\* d[product_id] = entry: a present key keeps its place, a new key goes last
DictPut(d, entry) ==
    LET i == IdIndex(d, entry.id)
    IN  IF i = 0 THEN Append(d, entry) ELSE [d EXCEPT ![i] = entry]

\* load_database: the pickle when the file holds one, {} when the file is
\* missing or joblib.load raises on it
load_database(file) == IF file.kind = "db" THEN file.db ELSE <<>>

\* register_product with the write of self.database moved before the test
\* of the descriptors
RegisterPutStoresFirst(name, product_id, descriptors, contrast_threshold) ==
    /\ up /\ pc = "idle" /\ ident.status = "idle"
    /\ sift' = contrast_threshold
    /\ database' = DictPut(database, [id |-> product_id, name |-> name,
                                       descriptors |-> descriptors])
    /\ IF descriptors = <<>>
       THEN /\ resp' = "no_features"
            /\ UNCHANGED <<pc, req>>
       ELSE /\ req' = [NoRequest EXCEPT !.name = name, !.id = product_id,
                                         !.descriptors = descriptors]
            /\ pc' = "csv"
            /\ resp' = "none"
    /\ UNCHANGED <<storage, csv, runs, up, identVars, calibVars, aggVars, textVars, threadVars>>

\* register_product up to the write of self.database: the extractor is
\* reconfigured and run (descriptors is what it returns); None ends the call
RegisterPut(name, product_id, descriptors, contrast_threshold) ==
    /\ up /\ pc = "idle" /\ ident.status = "idle"
    /\ sift' = contrast_threshold
    /\ IF descriptors = <<>>
       THEN /\ resp' = "no_features"
            /\ UNCHANGED <<database, pc, req>>
       ELSE /\ database' = DictPut(database, [id |-> product_id, name |-> name,
                                               descriptors |-> descriptors])
            /\ req' = [NoRequest EXCEPT !.name = name, !.id = product_id,
                                         !.descriptors = descriptors]
            /\ pc' = "csv"
            /\ resp' = "none"
    /\ UNCHANGED <<storage, csv, runs, up, identVars, calibVars, aggVars, textVars, threadVars>>

\* _save_to_csv, lines 40-51: the rows are read, the product's row is set and
\* the file is opened for writing, which empties it
CsvOpen ==
    /\ up /\ pc = "csv"
    /\ req' = [req EXCEPT !.rows = DictPut(csv, [id |-> req.id, name |-> req.name])]
    /\ csv' = <<>>
    /\ pc' = "csv_write"
    /\ UNCHANGED <<database, sift, storage, runs, up, resp,
                   identVars, calibVars, aggVars, textVars, threadVars>>

\* _save_to_csv, lines 52-55: all rows are written back
CsvWrite ==
    /\ up /\ pc = "csv_write"
    /\ csv' = req.rows
    /\ pc' = "dump"
    /\ UNCHANGED <<database, sift, storage, runs, up, req, resp,
                   identVars, calibVars, aggVars, textVars, threadVars>>

\* joblib.dump opens the store file for writing, which empties it
DumpOpen ==
    /\ up /\ pc = "dump"
    /\ storage' = PartialFile
    /\ pc' = "dump_write"
    /\ UNCHANGED <<database, sift, csv, runs, up, req, resp,
                   identVars, calibVars, aggVars, textVars, threadVars>>

\* joblib.dump completes the pickle of self.database
DumpWrite ==
    /\ up /\ pc = "dump_write"
    /\ storage' = DbFile(database)
    /\ pc' = "log"
    /\ UNCHANGED <<database, sift, csv, runs, up, req, resp,
                   identVars, calibVars, aggVars, textVars, threadVars>>

\* save_database, lines 64-70: the store file is logged as a run's artifact,
\* and register_product returns True
MlflowLog ==
    /\ up /\ pc = "log"
    /\ Cardinality(runs \cup {storage.db}) <= MaxRuns
    /\ runs' = runs \cup {storage.db}
    /\ pc' = "idle"
    /\ req' = NoRequest
    /\ resp' = "ok"
    /\ UNCHANGED <<database, sift, storage, csv, up,
                   identVars, calibVars, aggVars, textVars, threadVars>>

\* save_database, lines 71-72: the logging raises, which is only printed,
\* and register_product returns True
MlflowFail ==
    /\ up /\ pc = "log"
    /\ pc' = "idle"
    /\ req' = NoRequest
    /\ resp' = "ok"
    /\ UNCHANGED <<database, sift, storage, csv, runs, up,
                   identVars, calibVars, aggVars, textVars, threadVars>>

\* opening products.csv or the store file for writing raises (OSError): the
\* exception leaves register_product and the route answers 500
WriteFail ==
    /\ up /\ pc \in {"csv", "dump"}
    /\ pc' = "idle"
    /\ req' = NoRequest
    /\ resp' = "error"
    /\ UNCHANGED <<database, sift, storage, csv, runs, up,
                   identVars, calibVars, aggVars, textVars, threadVars>>

\* restore_version, lines 286-291: the run's artifact is downloaded and
\* shutil.copy opens the store file for writing
RestoreOpen(snap) ==
    /\ up /\ pc = "idle" /\ ident.status = "idle"
    /\ snap \in runs
    /\ req' = [NoRequest EXCEPT !.snap = snap]
    /\ storage' = PartialFile
    /\ pc' = "restore"
    /\ resp' = "none"
    /\ UNCHANGED <<database, sift, csv, runs, up, identVars, calibVars, aggVars, textVars, threadVars>>

\* restore_version, lines 291-298: the copy completes and load_database
\* reloads the store in place
RestoreLoad ==
    /\ up /\ pc = "restore"
    /\ storage' = DbFile(req.snap)
    /\ database' = load_database(DbFile(req.snap))
    /\ pc' = "idle"
    /\ req' = NoRequest
    /\ resp' = "restored"
    /\ UNCHANGED <<sift, csv, runs, up, identVars, calibVars, aggVars, textVars, threadVars>>

\* the process dies: memory is lost, the files stay as they are
Crash ==
    /\ up /\ ident.status = "idle"
    /\ up' = FALSE
    /\ database' = <<>>
    /\ sift' = DefaultTh
    /\ resp' = IF pc = "idle" THEN "none" ELSE "crashed"
    /\ pc' = "idle"
    /\ req' = NoRequest
    /\ UNCHANGED <<storage, csv, runs, identVars, calibVars, aggVars, textVars, threadVars>>

\* SIFTEngine.__init__: a default extractor, load_database, and
\* _ensure_csv_exists (products.csv exists since the first construction)
Start ==
    /\ ~up
    /\ up' = TRUE
    /\ sift' = DefaultTh
    /\ database' = load_database(storage)
    /\ UNCHANGED <<storage, csv, runs, pc, req, resp,
                   identVars, calibVars, aggVars, textVars, threadVars>>

(***************************************************************************)
(* restore_version on a thread of the pool, beside the event loop          *)
(***************************************************************************)
\* no restore on the thread
ThreadInit == tpos = "idle" /\ tsnap = <<>>

\* restore_version, lines 286-291: the run's artifact is downloaded and
\* shutil.copy opens the store file for writing, whatever the event loop is
\* doing
ThreadRestoreOpen(snap) ==
    /\ up /\ tpos = "idle"
    /\ snap \in runs
    /\ tsnap' = snap
    /\ storage' = PartialFile
    /\ tpos' = "copy"
    /\ UNCHANGED <<database, sift, csv, runs, up, pc, req, resp,
                   identVars, calibVars, aggVars, textVars>>

\* shutil.copy completes. When joblib.dump has the file open at the same
\* time the two writers share it without coordination: the file ends up as
\* the snapshot or as a mix of both, which does not unpickle
ThreadRestoreCopy ==
    /\ up /\ tpos = "copy"
    /\ \/ storage' = DbFile(tsnap)
       \/ pc = "dump_write" /\ storage' = PartialFile
    /\ tpos' = "load"
    /\ UNCHANGED <<database, sift, csv, runs, up, pc, req, resp, tsnap,
                   identVars, calibVars, aggVars, textVars>>

\* restore_version, lines 294-298: load_database reads the store file as it
\* is now and replaces self.database
ThreadRestoreLoad ==
    /\ up /\ tpos = "load"
    /\ database' = load_database(storage)
    /\ tpos' = "idle"
    /\ tsnap' = <<>>
    /\ UNCHANGED <<sift, storage, csv, runs, up, pc, req, resp,
                   identVars, calibVars, aggVars, textVars>>

\* joblib.dump completes while shutil.copy has the file open: the file ends
\* up as a mix of both
DumpWriteRacing ==
    /\ up /\ pc = "dump_write" /\ tpos = "copy"
    /\ storage' = PartialFile
    /\ pc' = "log"
    /\ UNCHANGED <<database, sift, csv, runs, up, req, resp,
                   identVars, calibVars, aggVars, textVars, threadVars>>

\* the engine right after its first construction, nothing stored yet
EngineInit ==
    /\ database = <<>> /\ sift = DefaultTh
    /\ storage = AbsentFile /\ csv = <<>> /\ runs = {}
    /\ up = TRUE /\ pc = "idle" /\ req = NoRequest /\ resp = "none"
    /\ ThreadInit

IdentInit == des_q = <<>> /\ min_match_count = 1 /\ ident = IdentIdle /\ again = NotRun

(***************************************************************************)
(* Specifications                                                          *)
(***************************************************************************)
\* inputs of the store operations
\* the threshold register hands over: a midpoint the calibrator evaluated
Thresholds      == {(ThetaMin + ThetaMax) \div 2}
RegDescriptors  == {<<>>, <<0, 4>>}
RegNames        == {"Cola"}

\* Spec: the engine under registrations, snapshot restores, write failures,
\* crashes and restarts
Init == EngineInit /\ IdentInit /\ CalibInit /\ AggInit /\ TextInit

Next ==
    \/ \E name \in RegNames, product_id \in ProductIds,
          descriptors \in RegDescriptors, th \in Thresholds :
            RegisterPut(name, product_id, descriptors, th)
    \/ CsvOpen
    \/ CsvWrite
    \/ DumpOpen
    \/ DumpWrite
    \/ MlflowLog
    \/ MlflowFail
    \/ WriteFail
    \/ \E snap \in runs : RestoreOpen(snap)
    \/ RestoreLoad
    \/ Crash
    \/ Start

Spec == Init /\ [][Next]_vars

\* SpecIdentify: identify_product called on catalogs that registrations built
NameOf(product_id) == IF product_id % 2 = 1 THEN "Cola" ELSE "Fanta"

Catalogs ==
    UNION {[1 .. n -> DescriptorSets \ {<<>>}] : n \in 0 .. MaxProducts}

CatalogOf(ds) ==
    [i \in 1 .. Len(ds) |-> [id |-> i, name |-> NameOf(i), descriptors |-> ds[i]]]

ListingOf(db) == [i \in 1 .. Len(db) |-> [id |-> db[i].id, name |-> db[i].name]]

InitIdentify ==
    /\ \E ds \in Catalogs : database = CatalogOf(ds)
    /\ storage = DbFile(database)
    /\ csv = ListingOf(database)
    /\ sift = DefaultTh /\ runs = {}
    /\ up = TRUE /\ pc = "idle" /\ req = NoRequest /\ resp = "none"
    /\ ThreadInit
    /\ IdentInit /\ CalibInit /\ AggInit /\ TextInit

NextIdentify ==
    \/ \E q \in DescriptorSets, mmc \in 1 .. MaxMinMatch : Identify(q, mmc)
    \/ IdentifyDone

SpecIdentify == InitIdentify /\ [][NextIdentify]_vars

\* SpecCalib: find_optimal_threshold against an arbitrary extractor
NextCalib ==
    \/ \E target \in 0 .. MaxCount, tol \in 0 .. MaxTol : CalibCall(target, tol)
    \/ \E count \in 0 .. MaxCount : CalibStep(count)

SpecCalib == Init /\ [][NextCalib]_vars

\* SpecBisect: find_optimal_threshold on an image, whose keypoint count does
\* not grow with the contrast threshold
Contrasts == {300, 13000, 26000, 27000, 40000}

Images ==
    {s \in SeqsUpTo(Contrasts, MaxCount) :
        \A i \in 1 .. Len(s) - 1 : s[i] <= s[i + 1]}

InitBisect ==
    /\ cv_image \in Images
    /\ CalibIdle
    /\ EngineInit /\ IdentInit /\ AggInit /\ TextInit

NextBisect ==
    \/ \E target \in 0 .. MaxCount, tol \in 0 .. MaxTol : CalibCall(target, tol)
    \/ CalibStep(detect_keypoints_vis(cv_image, (low + high) \div 2))

SpecBisect == InitBisect /\ [][NextBisect]_vars

\* SpecAgg: _aggregate_detections on arbitrary detection lists
RECURSIVE SeqsOf(_, _)
SeqsOf(S, n) == IF n = 0 THEN {<<>>} ELSE {<<x>> \o s : x \in S, s \in SeqsOf(S, n - 1)}

DetectionLists == UNION {SeqsOf(Detections, n) : n \in 0 .. MaxDetections}

NextAgg ==
    \/ \E dets \in DetectionLists, wsize \in WindowSizes, mframes \in 1 .. MaxMinFrames :
            Aggregate(dets, wsize, mframes)
    \/ Reaggregate
    \/ AggregateDone

SpecAgg == Init /\ [][NextAgg]_vars

\* SpecAnnotate: _annotate_text on arbitrary segments and on windows such as
\* the aggregator returns (one per bucket, each product once per window)
WindowStarts == {0, 100, 200}
WindowSkus   == {<<"Cola">>, <<"Fanta">>, <<"Cola", "Fanta">>}
Windows      == {[start |-> t, end |-> t + 100, skus |-> k] : t \in WindowStarts, k \in WindowSkus}
WindowLists  ==
    {w \in SeqsUpTo(Windows, MaxWindows) :
        \A i, j \in 1 .. Len(w) : w[i].start = w[j].start => i = j}

TextOk    == <<"o", "k">>
TextThree == <<"c", "u", "a", "t", "r", "o", " ", "p", "a", "l", "a", "b", "r", "a", "s",
               " ", "a", "q", "u", "i">>
TextFour  == TextThree \o <<" ", "h", "o", "y">>

Segments ==
    {[start |-> 250, end |-> 400, text |-> TextThree],
     [start |-> 250, end |-> 400, text |-> TextFour],
     [start |-> 0,   end |-> 100, text |-> TextFour],
     [start |-> 0,   end |-> 100, text |-> TextOk]}
SegmentLists == SeqsUpTo(Segments, MaxSegments)

MinWords == {3, 4}
Ratios   == {DefaultRatio, [num |-> 1, den |-> 2]}

InitAnnotate ==
    /\ EngineInit /\ IdentInit /\ CalibInit /\ TextInit
    /\ detections = <<>> /\ window_size = 100 /\ min_frames = 1
    /\ apc = "call" /\ reaggregated = NotCalled
    /\ aggregated \in WindowLists

NextAnnotate ==
    \/ \E segs \in SegmentLists, mwords \in MinWords, ratio \in Ratios :
            AnnotateText(segs, mwords, ratio)
    \/ AnnotateTextDone

SpecAnnotate == InitAnnotate /\ [][NextAnnotate]_vars

\* SpecVideo: process_video on a loaded catalog
Record(product_id, name, descriptors) ==
    [id |-> product_id, name |-> name, descriptors |-> descriptors]

ScanCatalogs ==
    {<<>>,
     <<Record("uuid-1", "Cola", <<0>>)>>,
     <<Record("uuid-1", "Cola", <<0>>), Record("uuid-2", "Fanta", <<4>>)>>,
     <<Record("uuid-1", "Cola", <<0>>), Record("uuid-2", "Cola", <<4>>)>>}

Transcripts ==
    {<<>>,
     <<[start |-> 0, end |-> 100, text |-> TextFour]>>,
     <<[start |-> 0, end |-> 100, text |-> TextOk],
       [start |-> 250, end |-> 400, text |-> TextFour]>>}

InitVideo ==
    /\ database \in ScanCatalogs
    /\ storage = DbFile(database)
    /\ csv = ListingOf(database)
    /\ sift = DefaultTh /\ runs = {}
    /\ up = TRUE /\ pc = "idle" /\ req = NoRequest /\ resp = "none"
    /\ ThreadInit
    /\ IdentInit /\ CalibInit /\ AggInit /\ TextInit

NextVideo ==
    \/ \E rate \in FrameRates, every \in FrameEvery, mmatches \in 1 .. MaxMinMatch :
            ProcessVideo(rate, every, mmatches)
    \/ \E every \in FrameEvery, mmatches \in 1 .. MaxMinMatch :
            ProcessVideoUnopened(every, mmatches)
    \/ \E q \in FrameDescriptors : ReadFrame(q)
    \/ EndOfStream
    \/ \E segs \in Transcripts : Transcribe(segs)
    \/ TranscribeFails
    \/ ProcessVideoDone
    \/ AnalyzeVideoError

SpecVideo == InitVideo /\ [][NextVideo]_vars

\* SpecNames: annotate_text_with_csv on a written name listing
Chars(i) ==
    CASE i = 1 -> <<"c", "o", "l", "a">>
      [] i = 2 -> <<"c", "o", "l", "a", "-", "z", "e", "r", "o">>
      [] i = 3 -> <<"p", "e", "p", "s", "i", "-", "m", "a", "x">>
      [] i = 4 -> <<"C", "o", "l", "a">>
      [] i = 5 -> <<" ", "y", " ">>
      [] i = 6 -> [k \in 1 .. 33 |-> IF k \in {1, 33} THEN " " ELSE "x"]

Row(product_id, name) == [id |-> product_id, name |-> name]

NameListings ==
    {<<>>,
     <<Row(<<"1">>, Chars(1)), Row(<<"2">>, Chars(2))>>,
     <<Row(<<"1">>, Chars(1)), Row(<<"3">>, Chars(3))>>,
     <<Row(<<"3">>, Chars(3)), Row(<<"2">>, Chars(2)), Row(<<"1">>, Chars(1))>>}

RECURSIVE Concat(_)
Concat(pieces) == IF pieces = <<>> THEN <<>> ELSE Chars(Head(pieces)) \o Concat(Tail(pieces))

Texts == {Concat(pieces) : pieces \in SeqsUpTo(1 .. 6, MaxPieces)}

InitNames ==
    /\ csv \in NameListings
    /\ csv_exists \in BOOLEAN
    /\ ~csv_exists => csv = <<>>
    /\ database = [i \in 1 .. Len(csv) |-> Record(csv[i].id, csv[i].name, <<0, 4>>)]
    /\ storage = DbFile(database)
    /\ sift = DefaultTh /\ runs = {}
    /\ up = TRUE /\ pc = "idle" /\ req = NoRequest /\ resp = "none"
    /\ ThreadInit
    /\ IdentInit /\ CalibInit /\ AggInit /\ AnnInit /\ VideoInit /\ NameIdle

NextNames ==
    \/ \E s \in Texts, csensitive \in BOOLEAN : AnnotateByName(s, csensitive)
    \/ AnnotateByNameDone

SpecNames == InitNames /\ [][NextNames]_vars

\* SpecRegister: registrations through the register route, each under a
\* fresh id, and identify_product between them
NextRegister ==
    \/ \E name \in RegNames, descriptors \in DescriptorSets, th \in Thresholds :
            /\ Len(database) < MaxProducts
            /\ RegisterPut(name, Len(database) + 1, descriptors, th)
    \/ CsvOpen
    \/ CsvWrite
    \/ DumpOpen
    \/ DumpWrite
    \/ MlflowLog
    \/ MlflowFail
    \/ \E q \in DescriptorSets, mmc \in 1 .. MaxMinMatch : Identify(q, mmc)
    \/ IdentifyDone

SpecRegister == Init /\ [][NextRegister]_vars

\* SpecRace: registrations on the event loop while restore_version runs on
\* a thread of the pool
NextRace ==
    \/ \E name \in RegNames, product_id \in ProductIds,
          descriptors \in RegDescriptors, th \in Thresholds :
            RegisterPut(name, product_id, descriptors, th)
    \/ CsvOpen
    \/ CsvWrite
    \/ DumpOpen
    \/ DumpWrite
    \/ DumpWriteRacing
    \/ MlflowLog
    \/ MlflowFail
    \/ \E snap \in runs : ThreadRestoreOpen(snap)
    \/ ThreadRestoreCopy
    \/ ThreadRestoreLoad

SpecRace == Init /\ [][NextRace]_vars

\* SpecPut: register_product under new and under present ids, with the
\* names and images changing from one registration to the next
PutDescriptors == {<<>>, <<0, 4>>, <<1>>}

NextPut ==
    \/ \E name \in Names, product_id \in ProductIds,
          descriptors \in PutDescriptors, th \in Thresholds :
            RegisterPut(name, product_id, descriptors, th)
    \/ CsvOpen
    \/ CsvWrite
    \/ DumpOpen
    \/ DumpWrite
    \/ MlflowFail

SpecPut == Init /\ [][NextPut]_vars

\* SpecRepeat: identify_product called twice in a row on a loaded catalog
RepeatQueries == {<<0>>, <<0, 1>>, <<1, 4>>}

NextRepeat ==
    \/ \E q \in RepeatQueries, mmc \in 1 .. MaxMinMatch : Identify(q, mmc)
    \/ Reidentify
    \/ IdentifyDone

SpecRepeat == InitIdentify /\ [][NextRepeat]_vars

\* SpecReadOnly: preview_keypoints, predict and chat between registrations.
\* The handlers are coroutines of one event loop and none of them awaits
\* between its first and its last access to the engine: one runs at a time.
FreshId == <<ToString(Len(database) + 1)>>

PreviewTargets == {1}
PreviewCounts  == {1, 2}
ChatTexts      == {Concat(<<1>>), Concat(<<4, 5, 2>>)}

NextReadOnly ==
    \/ \E descriptors \in RegDescriptors, th \in Thresholds :
            /\ Len(database) < MaxProducts
            /\ cpc # "loop"
            /\ RegisterPut(Chars(1), FreshId, descriptors, th)
    \/ CsvOpen
    \/ CsvWrite
    \/ DumpOpen
    \/ DumpWrite
    \/ MlflowLog
    \/ MlflowFail
    \/ \E target \in PreviewTargets : pc = "idle" /\ CalibCall(target, 0)
    \/ \E count \in PreviewCounts : CalibStep(count)
    \/ \E q \in RepeatQueries, mmc \in 1 .. MaxMinMatch :
            cpc # "loop" /\ Identify(q, mmc)
    \/ IdentifyDone
    \/ \E s \in ChatTexts, csensitive \in BOOLEAN :
            pc = "idle" /\ cpc # "loop" /\ AnnotateByName(s, csensitive)
    \/ AnnotateByNameDone

SpecReadOnly == Init /\ [][NextReadOnly]_vars

(***************************************************************************)
(* Properties of identify_product (SpecIdentify)                           *)
(***************************************************************************)
\* x of `from` passes the ratio test against the rows of `into`: into has a
\* nearest row j and a second-nearest row k, and the distance to j is less
\* than 0.75 times the distance to k
PassesRatio(x, into) ==
    \E j, k \in 1 .. Len(into) :
        /\ j # k
        /\ \A l \in 1 .. Len(into) : Dist(x, into[j]) <= Dist(x, into[l])
        /\ \A l \in (1 .. Len(into)) \ {j} : Dist(x, into[k]) <= Dist(x, into[l])
        /\ 4 * Dist(x, into[j]) < 3 * Dist(x, into[k])

\* number of rows of `from` that pass the ratio test against `into`
RatioScore(from, into) ==
    Cardinality({i \in 1 .. Len(from) : PassesRatio(from[i], into)})

MaxOf(S) == CHOOSE m \in S : \A x \in S : x <= m

\* the catalog's best score for the query, and the first entry that attains it
CatalogMax(db, q) == MaxOf({0} \cup {RatioScore(db[i].descriptors, q) : i \in 1 .. Len(db)})

FirstBest(db, q) ==
    LET best == {i \in 1 .. Len(db) : RatioScore(db[i].descriptors, q) = CatalogMax(db, q)}
        i    == CHOOSE i \in best : \A j \in best : i <= j
    IN  [name |-> db[i].name, id |-> db[i].id]

\* C1: for every catalog, query descriptor set and min_match_count,
\* identify_product returns the maximum per-product score of the catalog,
\* with the first product in insertion order that attains it when the
\* maximum is >= min_match_count, and with no product otherwise.
C1_ReturnsCatalogMaximum ==
    ident.status # "idle" =>
        /\ ident.status = "returned"
        /\ ident.matches = CatalogMax(database, des_q)
        /\ ident.match = IF CatalogMax(database, des_q) >= min_match_count
                         THEN FirstBest(database, des_q)
                         ELSE NoMatch

\* the same, for the calls that return
ReturnedIsCatalogMaximum ==
    ident.status = "returned" =>
        /\ ident.matches = CatalogMax(database, des_q)
        /\ ident.match = IF CatalogMax(database, des_q) >= min_match_count
                         THEN FirstBest(database, des_q)
                         ELSE NoMatch

DescriptorsOf(db, product_id) == db[IdIndex(db, product_id)].descriptors

\* C2 as amended: the score identify_product computes for a product is the
\* number of that product's descriptors whose nearest query descriptor is
\* at a distance strictly less than 0.75 times the distance of the
\* second-nearest query descriptor (the 2-nearest-neighbour search runs from
\* each catalog descriptor into the query descriptors); a call that returns
\* on a non-empty query has scored every product.
C2_ScoreCountsCatalogDescriptors ==
    /\ \A k \in 1 .. Len(ident.good) :
          ident.good[k].n = RatioScore(DescriptorsOf(database, ident.good[k].id), des_q)
    /\ (ident.status = "returned" /\ des_q # <<>>) => Len(ident.good) = Len(database)

\* C2 as stated: the score is the number of query descriptors whose nearest
\* descriptor in the product's set passes the ratio test (the search runs
\* from each query descriptor into the catalog descriptors).
C2_ScoreCountsQueryDescriptors ==
    \A k \in 1 .. Len(ident.good) :
        ident.good[k].n = RatioScore(des_q, DescriptorsOf(database, ident.good[k].id))

\* a returned call whose product score is positive and differs between the
\* two directions of the search
C2_Witness ==
    /\ ident.status = "returned"
    /\ \E k \in 1 .. Len(ident.good) :
          /\ ident.good[k].n > 0
          /\ ident.good[k].n # RatioScore(des_q, DescriptorsOf(database, ident.good[k].id))

(***************************************************************************)
(* Properties of find_optimal_threshold (SpecCalib)                        *)
(***************************************************************************)
\* C3: find_optimal_threshold returns a count within tolerance of the
\* target, or else it has evaluated the extractor exactly Budget times; it
\* never evaluates more than Budget times, and it goes on while there is
\* budget left and no evaluated count is within tolerance.
C3_ToleranceOrBudget ==
    /\ Len(evals) <= Budget
    /\ cpc = "done" =>
          \/ Abs(best_count - target_points) <= tolerance
          \/ Len(evals) = Budget
    /\ (cpc = "done" /\ Len(evals) < Budget) =>
          Abs(evals[Len(evals)].count - target_points) <= tolerance

\* the budget is exhausted and the returned count is out of tolerance
C3_Witness ==
    /\ cpc = "done"
    /\ Len(evals) = Budget
    /\ Abs(best_count - target_points) > tolerance

\* C4: the returned (theta, visualization, count) come from one evaluated
\* midpoint, whose count is nearest to the target among all evaluated
\* midpoints, also when the budget is exhausted out of tolerance.
C4_BestOfAllEvaluated ==
    cpc = "done" =>
        /\ best_vis \in 1 .. Len(evals)
        /\ evals[best_vis] = [mid |-> best_th, count |-> best_count]
        /\ \A k \in 1 .. Len(evals) :
              Abs(best_count - target_points) <= Abs(evals[k].count - target_points)

\* the budget is exhausted out of tolerance and the best midpoint is neither
\* the first nor the last evaluated
C4_Witness ==
    /\ cpc = "done"
    /\ Len(evals) = Budget
    /\ Abs(best_count - target_points) > tolerance
    /\ best_vis \in 2 .. Budget - 1

(***************************************************************************)
(* Properties of the catalog store (Spec)                                  *)
(***************************************************************************)
\* a register_product call for which the extractor returns no descriptors
RegisterNoFeatures ==
    \E name \in RegNames, product_id \in ProductIds, th \in Thresholds :
        RegisterPut(name, product_id, <<>>, th)

\* C5: when the extractor returns no descriptors, register_product reports
\* failure and leaves the in-memory store, the store file and the name
\* listing as they were before the call.
C5_NoFeaturesLeavesStore ==
    [][RegisterNoFeatures =>
          /\ resp' = "no_features"
          /\ pc' = "idle"
          /\ database' = database
          /\ storage' = storage
          /\ csv' = csv]_vars

\* a registration failed for lack of features on a store that holds products
C5_Witness ==
    /\ up /\ pc = "idle" /\ resp = "no_features"
    /\ database # <<>>
    /\ storage = DbFile(database)
    /\ csv # <<>>

\* C6: in every reachable state, every product id of the name listing has
\* an entry in the descriptor store.
C6_ListingWithinStore ==
    up => \A i \in 1 .. Len(csv) : \E j \in 1 .. Len(database) : database[j].id = csv[i].id

\* the records the store file holds
StoredRecords == IF storage.kind = "db" THEN storage.db ELSE <<>>

\* C7: whenever a registration attempt has returned, with success or with
\* an error, the store file holds exactly the records of the in-memory
\* store.
C7_WriteThrough ==
    (up /\ pc = "idle" /\ resp \in {"ok", "no_features", "error"}) =>
        /\ storage.kind # "partial"
        /\ StoredRecords = database

\* C8: a crash at any point of save_database leaves the store file complete,
\* the previous store or the new one, never a half-written file.
C8_AtomicPersist ==
    [][(up /\ ~up' /\ pc \in {"dump", "dump_write", "log"}) =>
          storage'.kind # "partial"]_vars

(***************************************************************************)
(* Properties of _aggregate_detections (SpecAgg)                           *)
(***************************************************************************)
Range(f) == {f[i] : i \in DOMAIN f}

\* floor(time / window_size) of the i-th detection
BucketOf(i) == detections[i].time \div window_size

Buckets == {BucketOf(i) : i \in 1 .. Len(detections)}

\* number of detections of bucket b that contain product p
DetectionsWith(b, p) ==
    Cardinality({i \in 1 .. Len(detections) :
                    BucketOf(i) = b /\ p \in Range(detections[i].skus)})

\* the products of bucket b that enough detections contain
Survivors(b) == {p \in Names : DetectionsWith(b, p) >= min_frames}

WindowsOf(b) == {k \in 1 .. Len(aggregated) : aggregated[k].start = b * window_size}

\* C9: a detection goes to bucket floor(time / window_size); a product is in
\* a bucket's window iff the number of detections of the bucket that contain
\* it is >= min_frames; a bucket with no such product produces no window.
C9_VotesAreDetections ==
    apc = "done" =>
        /\ \A b \in Buckets :
              IF Survivors(b) = {}
              THEN WindowsOf(b) = {}
              ELSE /\ Cardinality(WindowsOf(b)) = 1
                   /\ \A k \in WindowsOf(b) :
                         /\ Range(aggregated[k].skus) = Survivors(b)
                         /\ aggregated[k].end = (b + 1) * window_size
        /\ \A k \in 1 .. Len(aggregated) : \E b \in Buckets : k \in WindowsOf(b)

\* no detection lists a product twice
NoRepeatedSku ==
    \A i \in 1 .. Len(detections) :
        \A j, k \in 1 .. Len(detections[i].skus) :
            detections[i].skus[j] = detections[i].skus[k] => j = k

\* the same, for detections that list each product once
VotesAreDetectionsOfSets ==
    (apc = "done" /\ NoRepeatedSku) =>
        /\ \A b \in Buckets :
              IF Survivors(b) = {}
              THEN WindowsOf(b) = {}
              ELSE /\ Cardinality(WindowsOf(b)) = 1
                   /\ \A k \in WindowsOf(b) :
                         /\ Range(aggregated[k].skus) = Survivors(b)
                         /\ aggregated[k].end = (b + 1) * window_size
        /\ \A k \in 1 .. Len(aggregated) : \E b \in Buckets : k \in WindowsOf(b)

\* the windows are ordered by increasing start, each with start < end, and
\* no two overlap
WindowsOrdered ==
    /\ \A k \in 1 .. Len(aggregated) : aggregated[k].start < aggregated[k].end
    /\ \A j, k \in 1 .. Len(aggregated) :
          j < k => /\ aggregated[j].start < aggregated[k].start
                   /\ aggregated[j].end <= aggregated[k].start

\* the detections come in nondecreasing time order, as the scan of a video
\* produces them
TimeOrdered ==
    \A i, j \in 1 .. Len(detections) : i < j => detections[i].time <= detections[j].time

\* C10 as amended: for every sequence of detections given in nondecreasing
\* time order, the returned windows are ordered by increasing start, each
\* has start < end, and no two overlap.
C10_OrderedForTimeOrderedInput == (apc = "done" /\ TimeOrdered) => WindowsOrdered

\* C10 as stated: the same for detections in whatever time order.
C10_OrderedForAnyInput == apc = "done" => WindowsOrdered

\* time-ordered detections of two buckets, both of which give a window
C10_Witness ==
    /\ apc = "done"
    /\ TimeOrdered
    /\ Len(aggregated) >= 2

(***************************************************************************)
(* Properties of _annotate_text (SpecAnnotate)                             *)
(***************************************************************************)
\* number of whitespace-delimited tokens of a string: the positions where a
\* run of non-blank characters starts
Tokens(s) ==
    Cardinality({i \in 1 .. Len(s) : s[i] # " " /\ (i = 1 \/ s[i - 1] = " ")})

\* the windows that overlap segment i, and those of them that contain p
Overlapping(i) ==
    {k \in 1 .. Len(aggregated) :
        ~(segments[i].end < aggregated[k].start \/ segments[i].start > aggregated[k].end)}

Containing(i, p) == {k \in Overlapping(i) : p \in Range(aggregated[k].skus)}

\* (windows overlapping i that contain p) / (windows overlapping i) >= ratio
PresenceReached(i, p) ==
    /\ Overlapping(i) # {}
    /\ Cardinality(Containing(i, p)) * min_presence_ratio.den
          >= min_presence_ratio.num * Cardinality(Overlapping(i))

\* C11: for a segment with at least min_words_text tokens, _annotate_text
\* attaches a product reference if and only if the number of overlapping
\* windows that contain the product, divided by the number of overlapping
\* windows, is >= min_presence_ratio; a window overlaps unless
\* segment.end < window.start or segment.start > window.end.
C11_ReferenceIffPresenceRatio ==
    tpc = "done" =>
        \A i \in 1 .. Len(segments) :
            Tokens(segments[i].text) >= min_words_text =>
                \A p \in Names :
                    p \in Range(final_parts[i].skus) <=> PresenceReached(i, p)

\* a long enough segment carries a product that is in exactly the required
\* fraction of its overlapping windows, one of which only touches it
C11_Witness ==
    /\ tpc = "done"
    /\ \E i \in 1 .. Len(segments), p \in Names :
          /\ Tokens(segments[i].text) >= min_words_text
          /\ Cardinality(Overlapping(i)) = 2
          /\ \E k \in Overlapping(i) : segments[i].end = aggregated[k].start
          /\ Cardinality(Containing(i, p)) * min_presence_ratio.den
                = min_presence_ratio.num * Cardinality(Overlapping(i))
          /\ p \in Range(final_parts[i].skus)

\* C12: for every list of segments and windows, a segment with fewer than
\* min_words_text whitespace-delimited tokens appears in the script with its
\* text unchanged and with no product reference, whatever windows overlap
\* it; the script has one part per segment, in the order of the segments.
C12_ShortSegmentUnchanged ==
    tpc = "done" =>
        /\ Len(final_parts) = Len(segments)
        /\ \A i \in 1 .. Len(segments) :
              /\ final_parts[i].text = segments[i].text
              /\ Tokens(segments[i].text) < min_words_text =>
                    final_parts[i].skus = <<>>

\* a short segment that a window with a product overlaps, next to a long
\* segment that is annotated
C12_Witness ==
    /\ tpc = "done"
    /\ \E i, j \in 1 .. Len(segments) :
          /\ Tokens(segments[i].text) = min_words_text - 1
          /\ \E p \in Names : PresenceReached(i, p)
          /\ final_parts[i].skus = <<>>
          /\ final_parts[j].skus # <<>>

\* the example: the single segment {2.5, 4, "cuatro palabras aqui"} against
\* the single window {2, 3, {P1}}, min_presence_ratio=0.6
FusionExample ==
    /\ tpc = "done"
    /\ segments = <<[start |-> 250, end |-> 400, text |-> TextThree]>>
    /\ aggregated = <<[start |-> 200, end |-> 300, skus |-> <<"Cola">>]>>
    /\ min_presence_ratio = DefaultRatio

\* C13 as stated: with the default parameters the segment of the example
\* carries the P1 reference.
C13_ExampleCarriesReference ==
    (FusionExample /\ min_words_text = DefaultMinWords) =>
        final_parts = <<[text |-> TextThree, skus |-> <<"Cola">>]>>

\* C13 as amended: with the default parameters the segment of the example,
\* whose text has three tokens, is in the script unchanged and without
\* reference; with min_words_text = 3 it carries the P1 reference.
C13_ExamplePassesThrough ==
    FusionExample =>
        final_parts = <<[text |-> TextThree,
                         skus |-> IF min_words_text = DefaultMinWords
                                  THEN <<>> ELSE <<"Cola">>]>>

\* the example has been annotated with the default parameters
C13_Witness == FusionExample /\ min_words_text = DefaultMinWords /\ Len(final_parts) = 1

(***************************************************************************)
(* Properties of process_video (SpecVideo)                                 *)
(***************************************************************************)
\* C14: with frame_every_seconds = 1 at most one frame per integer second
\* of the stream is run through matching, so no two detections fall in the
\* same integer second.
C14_OneFramePerSecond ==
    frame_every_seconds = 1 =>
        \A i, j \in 1 .. Len(detections) :
            i < j => detections[i].time \div 100 # detections[j].time \div 100

\* the catalog records whose score against the descriptors q is >= mmatches
Clearing(q, mmatches) ==
    {i \in 1 .. Len(database) : RatioScore(database[i].descriptors, q) >= mmatches}

\* an entry of a detection names a record by its id or by its name
Denotes(entry, record) == entry = record.id \/ entry = record.name

\* the frame read last has a detection
Recorded == detections # <<>> /\ detections[Len(detections)].time = frame.time

\* C15: the detection of a selected frame holds exactly the catalog products
\* whose score against the frame is >= min_matches, each product once, no
\* entry twice; a frame with no such product records no detection.
C15_DetectionIsSetOfClearing ==
    (vpc = "scan" /\ frame_idx > 0 /\ frame.selected) =>
        LET vis  == Clearing(frame.des_q, min_matches)
            skus == detections[Len(detections)].skus
        IN  IF vis = {}
            THEN ~Recorded
            ELSE /\ Recorded
                 /\ Len(skus) = Cardinality(vis)
                 /\ \A k \in 1 .. Len(skus) : \E i \in vis : Denotes(skus[k], database[i])
                 /\ \A i \in vis : \E k \in 1 .. Len(skus) : Denotes(skus[k], database[i])
                 /\ \A j, k \in 1 .. Len(skus) : skus[j] = skus[k] => j = k

\* no two catalog records have the same name
DistinctNames ==
    \A i, j \in 1 .. Len(database) : database[i].name = database[j].name => i = j

\* the same, for catalogs whose records have different names
DetectionIsSetForDistinctNames == DistinctNames => C15_DetectionIsSetOfClearing

\* C16: every product reference in the script process_video returns is the
\* id of a record of the catalog store.
C16_ReferencesAreIds ==
    vpc = "done" =>
        \A i \in 1 .. Len(final_parts) :
            \A k \in 1 .. Len(final_parts[i].skus) :
                \E j \in 1 .. Len(database) : database[j].id = final_parts[i].skus[k]

(***************************************************************************)
(* Properties of annotate_text_with_csv (SpecNames)                        *)
(***************************************************************************)
\* the annotated text read back: the offsets where a marker " (SKU:" starts,
\* the offset of the ")" that closes it, the positions of the characters
\* outside every marker, and for each marker the number of such characters
\* before it and the id it carries
MarkerStarts ==
    {p \in 0 .. Len(annotated_text) - 6 :
        SubSeq(annotated_text, p + 1, p + 6) = <<" ">> \o MarkerOpen}

ClosingOf(p) ==
    CHOOSE q \in p + 6 .. Len(annotated_text) :
        /\ q = Len(annotated_text) \/ annotated_text[q + 1] = ")"
        /\ \A m \in p + 6 .. q - 1 : annotated_text[m + 1] # ")"

PlainPositions ==
    {k \in 1 .. Len(annotated_text) :
        \A p \in MarkerStarts : k <= p \/ k > ClosingOf(p) + 1}

PlainBefore(k) == Cardinality({m \in PlainPositions : m <= k})

Marks ==
    {[at |-> PlainBefore(p), id |-> Slice(annotated_text, p + 6, ClosingOf(p))] :
        p \in MarkerStarts}

\* without its markers the annotated text is the input text
PlainIsText ==
    /\ Cardinality(PlainPositions) = Len(text)
    /\ \A k \in PlainPositions : annotated_text[k] = text[PlainBefore(k)]

\* the spans of the whole-word occurrences of a name in the input text
Occurrences(name) ==
    {[start |-> p, end |-> p + Len(name)] :
        p \in {p \in 0 .. Len(text) : MatchesAt(text, name, p, case_sensitive)}}

\* C17: where a catalog name occurs as a whole word inside an occurrence of
\* a longer catalog name, the shorter name's marker is not inserted inside
\* or after that occurrence, for every pair of names and every text.
C17_NoMarkerInsideLongerName ==
    npc = "done" =>
        /\ PlainIsText
        /\ \A l, s \in 1 .. Len(csv) :
              Len(csv[s].name) < Len(csv[l].name) =>
                  \A o \in Occurrences(csv[l].name), i \in Occurrences(csv[s].name) :
                      (o.start <= i.start /\ i.end <= o.end) =>
                          [at |-> i.end, id |-> csv[s].id] \notin Marks

\* the occurrence o of row r overlaps an occurrence of a longer name
OverlapsLonger(r, o) ==
    \E l \in 1 .. Len(csv) :
        /\ Len(csv[l].name) > Len(csv[r].name)
        /\ \E lo \in Occurrences(csv[l].name) : lo.start < o.end /\ o.start < lo.end

\* C18: the product's marker stands immediately after every whole-word
\* occurrence of a catalog name that does not overlap an occurrence of a
\* longer catalog name.
C18_MarkerAfterEveryMention ==
    npc = "done" =>
        \A r \in 1 .. Len(csv) :
            \A o \in Occurrences(csv[r].name) :
                ~OverlapsLonger(r, o) =>
                    [at |-> o.end, id |-> csv[r].id] \in Marks

(***************************************************************************)
(* Registration followed by identification (SpecRegister)                  *)
(***************************************************************************)
\* the record of the registration that returned last: the register route
\* gives every product a fresh id, which goes last in the store
Registered == database[Len(database)]

\* C19: a product that has just been registered successfully and is then
\* queried through identify_product with its own reference image obtains a
\* score >= min_match_count and is returned as the match.
C19_OwnImageIsMatched ==
    (/\ ident.status # "idle"
     /\ pc = "idle" /\ resp = "ok"
     /\ des_q = Registered.descriptors) =>
        /\ ident.status = "returned"
        /\ ident.matches >= min_match_count
        /\ ident.match = [name |-> Registered.name, id |-> Registered.id]

\* the same for a reference image with at least two descriptors, no two of
\* them equal, and at least min_match_count of them: the call returns a
\* product with a score >= min_match_count (the registered one, or one
\* stored before it that scores as high)
OwnImageOfDistinctRows ==
    (/\ ident.status # "idle"
     /\ pc = "idle" /\ resp = "ok"
     /\ des_q = Registered.descriptors
     /\ Len(des_q) >= 2 /\ Len(des_q) >= min_match_count
     /\ \A i, j \in 1 .. Len(des_q) : des_q[i] = des_q[j] => i = j) =>
        /\ ident.status = "returned"
        /\ ident.matches >= min_match_count
        /\ ident.match # NoMatch

(***************************************************************************)
(* A second aggregation of the returned windows (SpecAgg)                  *)
(***************************************************************************)
\* C20: the window list _aggregate_detections returns, handed to
\* _aggregate_detections again with the same window_size and min_frames, is
\* returned unchanged.
C20_ReaggregationReproduces ==
    reaggregated # NotCalled =>
        reaggregated = [status |-> "returned", windows |-> aggregated]

PreviewStep == cpc = "loop" \/ cpc' = "loop"

\* a call of identify_product
IdentifyStep == ident.status = "idle" /\ ident'.status # "idle"

\* a call of annotate_text_with_csv
ChatStep == npc = "call" /\ npc' = "done"

\* C22: preview (calibration only), identify and the name-based annotator
\* leave the in-memory catalog, the store file, the name listing and the
\* extractor configuration of the engine as they were.
C22_ReadersLeaveEngine ==
    [][(PreviewStep \/ IdentifyStep \/ ChatStep)
        => UNCHANGED <<database, storage, csv, sift>>]_vars

\* after a registration that reconfigured the extractor, the three handlers
\* have run: the calibration ended, a product was identified, a name annotated
C22_Witness ==
    /\ database # <<>> /\ storage = DbFile(database) /\ csv # <<>>
    /\ sift # DefaultTh
    /\ cpc = "done"
    /\ ident.status = "returned" /\ ident.matches >= min_match_count
    /\ npc = "done" /\ annotated_text # text

(***************************************************************************)
(* Properties of the engine's construction (Spec)                          *)
(***************************************************************************)
\* C23: when the store is loaded at construction, a name listing that
\* disagrees with the descriptor store is rewritten from the store, so that
\* the engine starts with a listing that has exactly the rows of the store.
C23_LoadReconcilesListing ==
    [][(~up /\ up') => csv' = ListingOf(database')]_vars

(***************************************************************************)
(* Properties of process_video on unreadable media (SpecVideo)             *)
(***************************************************************************)
\* C24: when the video stream cannot be opened, process_video ends with an
\* error and returns no script (and the catalog store is as it was).
C24_UnopenedVideoFails ==
    (vpc \in {"done", "error"} /\ ~opened) =>
        /\ vpc = "error"
        /\ storage = DbFile(database)

(***************************************************************************)
(* Properties of annotate_text_with_csv without a catalog (SpecNames)      *)
(***************************************************************************)
\* C25: when the name listing file does not exist, or holds no product row,
\* annotate_text_with_csv returns the input text unchanged and does not fail.
C25_NoListingPassesThrough ==
    (npc # "call" /\ (~csv_exists \/ csv = <<>>)) =>
        /\ npc = "done"
        /\ annotated_text = text

\* a text of three pieces went through with the file missing
C25_Witness ==
    /\ ~csv_exists
    /\ npc = "done"
    /\ text = Concat(<<4, 5, 2>>)
    /\ annotated_text = text

(***************************************************************************)
(* Properties of the bisection (SpecBisect, SpecCalib)                     *)
(***************************************************************************)
\* the evaluations that moved a bound: those with a count out of tolerance
Moving == {i \in 1 .. Len(evals) :
            ~WithinTolerance(evals[i].count, target_points, tolerance)}

\* theta_min <= low < high <= theta_max
BoundsOrdered == ThetaMin <= low /\ low < high /\ high <= ThetaMax

\* the midpoint evaluated last, when out of tolerance, is the new upper bound
\* if its count is below the target and the new lower bound otherwise
LastMoved ==
    Len(evals) \in Moving =>
        IF evals[Len(evals)].count < target_points
        THEN high = evals[Len(evals)].mid
        ELSE low = evals[Len(evals)].mid

\* midpoints with a count below the target are at or above high, the other
\* ones at or below low
SidesKept ==
    \A i \in Moving :
        IF evals[i].count < target_points
        THEN evals[i].mid >= high
        ELSE evals[i].mid <= low

\* the thresholds where the count of cv_image may change, and the ends
Probes ==
    {th \in {ThetaMin, ThetaMax} \cup Contrasts \cup {c + 1 : c \in Contrasts} :
        ThetaMin <= th /\ th <= ThetaMax}

\* no threshold whose count is within tolerance is outside [low, high]
CandidatesKept ==
    \A th \in Probes :
        WithinTolerance(detect_keypoints_vis(cv_image, th), target_points, tolerance)
            => low <= th /\ th <= high

\* C26: during the bisection theta_min <= low < high <= theta_max; a
\* midpoint with a count below the target becomes the upper bound and any
\* other out-of-tolerance midpoint the lower bound, so the former stay at or
\* above high and the latter at or below low; and with a count that does not
\* grow with theta no theta with a within-tolerance count leaves [low, high].
C26_BisectionKeepsCandidates ==
    cpc # "idle" => BoundsOrdered /\ LastMoved /\ SidesKept /\ CandidatesKept

\* the first three parts, for counts of any kind (SpecCalib)
BisectionBoundsForAnyCounts ==
    cpc # "idle" => BoundsOrdered /\ LastMoved /\ SidesKept

\* both bounds have moved and the search ended within tolerance, on an image
\* with keypoints
C26_Witness ==
    /\ cpc = "done"
    /\ cv_image # <<>>
    /\ low > ThetaMin /\ high < ThetaMax
    /\ WithinTolerance(best_count, target_points, tolerance)

(***************************************************************************)
(* Properties relating the scan of a frame to identify_product             *)
(* (SpecIdentify)                                                          *)
(***************************************************************************)
\* the score the video scan computes for product i on the descriptors q
ScanScore(i, q) == GoodCountGuarded(knnMatch(database[i].descriptors, q, 2))

\* identify_product returned and its score of every product is the scan's
ScoresAgree ==
    /\ ident.status = "returned"
    /\ Len(ident.good) = Len(database)
    /\ \A i \in 1 .. Len(database) :
            /\ ident.good[i].id = database[i].id
            /\ ident.good[i].n = ScanScore(i, des_q)

\* C27: for every catalog and every descriptor set of a frame, one with
\* fewer than two descriptors included, the per-product score of the video
\* scan equals the score identify_product computes, and neither raises.
C27_ScanScoreIsIdentifyScore ==
    (ident.status # "idle" /\ des_q # <<>>) => ScoresAgree

\* the same for descriptor sets of two descriptors or more
ScoresAgreeFromTwoDescriptors ==
    (ident.status # "idle" /\ Len(des_q) >= 2) => ScoresAgree

(***************************************************************************)
(* Properties of a registration's effect (SpecPut)                         *)
(***************************************************************************)
\* the entries of d under other keys than product_id, in their order
Others(d, product_id) == SelectSeq(d, LAMBDA e : e.id # product_id)

\* d has exactly one entry under product_id, and it is entry
OnlyEntry(d, product_id, entry) ==
    /\ Cardinality({i \in 1 .. Len(d) : d[i].id = product_id}) = 1
    /\ \A i \in 1 .. Len(d) : d[i].id = product_id => d[i] = entry

\* register_product writes self.database
StorePut ==
    (pc = "idle" /\ pc' = "csv") =>
        /\ OnlyEntry(database', req'.id,
                     [id |-> req'.id, name |-> req'.name, descriptors |-> req'.descriptors])
        /\ Others(database', req'.id) = Others(database, req'.id)

\* _save_to_csv from the rows it read to the rows it wrote
ListingPut ==
    /\ (pc = "csv" /\ pc' = "csv_write") =>
            Others(req'.rows, req.id) = Others(csv, req.id)
    /\ (pc = "csv_write" /\ pc' = "dump") =>
            /\ OnlyEntry(csv', req.id, [id |-> req.id, name |-> req.name])
            /\ Others(csv', req.id) = Others(req.rows, req.id)

\* register_product returns True: the store and the listing are as they
\* were written, and the store file holds the store
ReturnsWritten ==
    (pc # "idle" /\ resp' = "ok") =>
        /\ database' = database /\ csv' = csv
        /\ OnlyEntry(database', req.id,
                     [id |-> req.id, name |-> req.name, descriptors |-> req.descriptors])
        /\ OnlyEntry(csv', req.id, [id |-> req.id, name |-> req.name])
        /\ storage' = DbFile(database')

\* C28: a successful registration under id p, new or present, leaves the
\* store and the name listing each with exactly one entry for p, carrying
\* the new name (and in the store the new descriptors), and leaves the
\* entries of the other ids, and their order in the listing, as they were.
C28_RegistrationReplacesOneEntry ==
    [][StorePut /\ ListingPut /\ ReturnsWritten]_vars

\* id 1, registered before id 2, has been registered again under another
\* name: it kept its place in the store and in the listing
C28_Witness ==
    /\ resp = "ok" /\ pc = "idle"
    /\ Len(database) = 2 /\ Len(csv) = 2
    /\ database[1] = [id |-> 1, name |-> "Fanta", descriptors |-> <<1>>]
    /\ database[2].id = 2 /\ database[2].name = "Cola"
    /\ csv[1] = [id |-> 1, name |-> "Fanta"]
    /\ csv[2] = [id |-> 2, name |-> "Cola"]

(***************************************************************************)
(* Properties of the extractor configuration (Spec)                        *)
(***************************************************************************)
\* a call of register_product: it ends with no features detected, or goes on
\* to write the listing
RegistrationAttempt ==
    /\ pc = "idle"
    /\ \/ pc' = "csv"
       \/ resp # "no_features" /\ resp' = "no_features"

\* C29: a registration attempt, in particular one that fails with no
\* features detected, leaves unchanged the extractor sensitivity with which
\* later identify and video-scan calls extract the query descriptors.
C29_RegistrationKeepsExtractor ==
    [][RegistrationAttempt => sift' = sift]_vars

(***************************************************************************)
(* Properties of a restore beside a registration (SpecRace)                *)
(***************************************************************************)
\* the ids of a store
IdsOf(d) == {d[i].id : i \in 1 .. Len(d)}

\* register_product returns True with its product in the in-memory store and
\* in the store file
SuccessIsStored ==
    (pc = "log" /\ resp' = "ok") =>
        /\ req.id \in IdsOf(database')
        /\ storage'.kind = "db"
        /\ req.id \in IdsOf(storage'.db)

\* no registration and no restore is in progress, and the in-memory store is
\* what the store file holds
QuietAndEqual ==
    (pc' = "idle" /\ tpos' = "idle") => database' = load_database(storage')

\* C30: when a snapshot restore on a worker thread interleaves with a
\* registration on the event loop, a registration that reports success has
\* its product in the in-memory store and in the store file when it returns,
\* and the in-memory store equals the persisted store once both have
\* finished.
C30_RestoreBesideRegistration ==
    [][SuccessIsStored /\ QuietAndEqual]_vars

====
